---- MODULE Spec2Model ----
(***************************************************************************)
(* pydantic-xlsx: export of pydantic models to xlsx workbooks and back.    *)
(*                                                                         *)
(* The module holds three specifications over one set of variables:        *)
(*   Spec        XlsxModel.workbook / XlsxModel.from_workbook on a model   *)
(*               instance (composition.py, model.py)                       *)
(*   SpecMoney   the Money type (types.py, money.py)                       *)
(*   SpecFormat  the per-column font / number-format resolution of         *)
(*               Composition.__apply_apperance                             *)
(***************************************************************************)
EXTENDS Integers, Sequences, FiniteSets, TLC

VARIABLES
    model,      \* Spec: the XlsxModel instance (its class, config and field values)
    sheets,     \* Spec: what sheets_from_model returned during workbook()
    wb,         \* Spec: what workbook() returned
    opened,     \* Spec: the worksheets of the workbook handed to from_workbook()
    parsed,     \* Spec: the data from_workbook() handed to parse_obj
    loaded,     \* Spec: what from_workbook() returned
    money,      \* SpecMoney: the Money object under test
    rebuilt,    \* SpecMoney: Money built again from amount / 10^minor_unit
    shown,      \* SpecMoney: str(money)
    formatted,  \* SpecMoney: the number format of the Money object's class
    resolving,  \* SpecFormat: a column's field_info, field_type_info and config
    dimension,  \* SpecFormat: the column dimension __apply_apperance leaves
    printing,   \* SpecPrint: the config of the batch that is populating a worksheet
    printed,    \* SpecPrint: the print settings __apply_print_settings leaves
    pc,         \* SpecExport: the position of to_file() in its code
    book,       \* SpecExport: the worksheets of the Workbook that workbook() fills
    saved       \* SpecExport: the workbook in the file at the path given to to_file()

vars == <<model, sheets, wb, opened, parsed, loaded, money, rebuilt, shown, formatted,
          resolving, dimension, printing, printed, pc, book, saved>>

xlsxVars == <<model, sheets, wb, opened, parsed, loaded>>
moneyVars == <<money, rebuilt, shown, formatted>>
formatVars == <<resolving, dimension>>
printVars == <<printing, printed>>
exportVars == <<pc, book, saved>>

None == [t |-> "none"]

(***************************************************************************)
(* Bounds                                                                  *)
(***************************************************************************)
\* largest minor_unit of a user-defined currency
MaxMinor == 2
\* float inputs range over -MaxDec..MaxDec thousandths (and a few larger ones)
MaxDec == 600

(***************************************************************************)
(* Floats.  A float is [dec, err]: dec is its decimal value in units of    *)
(* 10^-Prec and err the sign of (binary double - decimal value).  err = 0  *)
(* exactly when the decimal value is a dyadic rational, i.e. 5^Prec | dec. *)
(***************************************************************************)
Prec == MaxMinor + 1

RECURSIVE Pow(_, _)
Pow(b, e) == IF e = 0 THEN 1 ELSE b * Pow(b, e - 1)

Abs(n) == IF n < 0 THEN -n ELSE n

Exact(dec) == dec % Pow(5, Prec) = 0

ErrsOf(dec) == IF Exact(dec) THEN {0} ELSE {-1, 1}

DecVals == (-MaxDec .. MaxDec)
             \cup { k * Pow(10, Prec - 3) : k \in {12345, -12345, 2675, 1234567, -1234567} }

Float(dec, err) == [dec |-> dec, err |-> err]

Floats == { f \in [dec : DecVals, err : {-1, 0, 1}] : f.err \in ErrsOf(f.dec) }

(***************************************************************************)
(* Currencies: money.py, and user-defined subclasses of Money.             *)
(***************************************************************************)
\* Euro.code is the euro sign; it is written "EUR" here
Euro ==
    [name |-> "Euro", minor_unit |-> 2, code |-> "EUR", code_before_amount |-> FALSE,
     delimiter |-> ",", thousands_separator |-> "."]

SwissFranc ==
    [name |-> "SwissFranc", minor_unit |-> 2, code |-> "CHF", code_before_amount |-> FALSE,
     delimiter |-> ".", thousands_separator |-> " "]

UnitedStatesDollar ==
    [name |-> "UnitedStatesDollar", minor_unit |-> 2, code |-> "$", code_before_amount |-> FALSE,
     delimiter |-> ".", thousands_separator |-> ","]

\* a user-defined currency with m minor units and the code before the amount
UserCurrency(m) ==
    [name |-> "UserCurrency", minor_unit |-> m, code |-> "XXX", code_before_amount |-> TRUE,
     delimiter |-> ".", thousands_separator |-> ","]

Currencies == {Euro, SwissFranc, UnitedStatesDollar} \cup { UserCurrency(m) : m \in 0 .. MaxMinor }

(***************************************************************************)
(* Money.__init__: normalized = "{:.{minor_unit}f}".format(value);         *)
(* amount = int(normalized.replace(".", "")).                              *)
(***************************************************************************)
\* "{:.{m}f}".format(value): the exact binary value rounded to m decimals,
\* half-to-even; returned as sign and digits (the numeral without its point).
FormatFixed(m, value) ==
    LET unit == Pow(10, Prec - m)
        mag  == Abs(value.dec)
        q    == mag \div unit
        r    == mag % unit
        \* sign of (binary magnitude - decimal magnitude)
        merr == IF value.dec < 0 THEN -value.err ELSE value.err
        up   == \/ 2 * r > unit
                \/ /\ 2 * r = unit
                   /\ \/ merr > 0
                      \/ merr = 0 /\ q % 2 = 1
    IN [neg |-> value.dec < 0, digits |-> IF up THEN q + 1 ELSE q]

\* mutant of MoneyInit: one decimal too many is kept
MoneyInitExtraDigit(cls, value) ==
    LET normalized == FormatFixed(cls.minor_unit + 1, value)
    IN [t |-> "money", cls |-> cls, value |-> value,
        amount |-> IF normalized.neg THEN -normalized.digits ELSE normalized.digits]

MoneyInit(cls, value) ==
    LET normalized == FormatFixed(cls.minor_unit, value)
    IN [t |-> "money", cls |-> cls, value |-> value,
        amount |-> IF normalized.neg THEN -normalized.digits ELSE normalized.digits]

\* Money.validate
Validate(cls, value) == MoneyInit(cls, value)

(***************************************************************************)
(* Money.__str__                                                           *)
(***************************************************************************)
Digit(d) == <<"0", "1", "2", "3", "4", "5", "6", "7", "8", "9">>[d + 1]

RECURSIVE NatStr(_)
NatStr(n) == IF n < 10 THEN Digit(n) ELSE NatStr(n \div 10) \o Digit(n % 10)

\* "{:0{w}d}".format(n), n >= 0
RECURSIVE ZeroPad(_, _)
ZeroPad(w, n) == IF Len(NatStr(n)) >= w THEN NatStr(n)
                 ELSE "0" \o ZeroPad(w - 1, n)

\* "{:,}".format(n).replace(",", sep)
RECURSIVE GroupNat(_, _)
GroupNat(n, sep) == IF n < 1000 THEN NatStr(n)
                    ELSE GroupNat(n \div 1000, sep) \o sep \o ZeroPad(3, n % 1000)

Grouped(n, sep) == IF n < 0 THEN "-" \o GroupNat(-n, sep) ELSE GroupNat(n, sep)

WithCode(cls, number) ==
    IF cls.code_before_amount THEN cls.code \o " " \o number
    ELSE number \o " " \o cls.code

MoneyStr(m) ==
    LET minor_amount   == m.amount % Pow(10, m.cls.minor_unit)
        minor          == ZeroPad(m.cls.minor_unit, minor_amount)
        integer_amount == m.amount - minor_amount
        integer        == Grouped(integer_amount, m.cls.thousands_separator)
        number         == integer \o m.cls.delimiter \o minor
    IN WithCode(m.cls, number)

(***************************************************************************)
(* Bounds of the model instances                                           *)
(***************************************************************************)
\* a model class declares 1 .. MaxFields fields
MaxFields == 2
\* a collection field holds 0 .. MaxRows records
MaxRows == 2

(***************************************************************************)
(* Values.  Every value is a record tagged by t.                           *)
(***************************************************************************)
StrVal(s) == [t |-> "str", s |-> s]
IntVal(n) == [t |-> "int", n |-> n]
\* a member of a (str, Enum) class: a str instance
EnumVal(s) == [t |-> "enum", s |-> s]
FloatVal(value) == [t |-> "float", value |-> value]
ListVal(l) == [t |-> "list", l |-> l]
\* a non-empty dict
DictVal == [t |-> "dict"]
\* an instance of an XlsxModel class; d maps field names to values (__dict__)
ModelVal(cls, d) == [t |-> "model", cls |-> cls, d |-> d]

StrVals == {"abcd", "abcdefghij"}
IntVals == {7}
ColorVals == {"red", "darkmagenta"}
MoneyInputs == { Float(12345 * Pow(10, Prec - 3), 1), Float(-500 * Pow(10, Prec - 3), 0) }

(***************************************************************************)
(* fields.py: XlsxFieldInfo, FieldTypeInfoFactory                          *)
(***************************************************************************)
Font(name) == [name |-> name]

\* pydantic's FieldInfo: no font and no number_format attribute
FieldInfo == [cls |-> "FieldInfo"]

XlsxFieldInfo(font, number_format) ==
    [cls |-> "XlsxFieldInfo", font |-> font, number_format |-> number_format]

HasAttr(obj, name) == name \in DOMAIN obj

\* Money.number_format
NumberFormat(cls) ==
    LET hashes == [i \in 1 .. cls.minor_unit |-> "#"]
        zeros  == [i \in 1 .. cls.minor_unit |-> "0"]
        RECURSIVE Join(_)
        Join(q) == IF q = <<>> THEN "" ELSE Head(q) \o Join(Tail(q))
        decimal_seperation == "#" \o cls.delimiter \o Join(hashes) \o "0." \o Join(zeros)
        amount == IF cls.code_before_amount
                  THEN cls.code \o " " \o decimal_seperation
                  ELSE decimal_seperation \o " " \o cls.code
    IN amount \o ";[RED]-" \o amount

\* MoneyFieldInfo.field_info
MoneyFieldInfo(cur) == XlsxFieldInfo(None, StrVal(NumberFormat(cur)))

(***************************************************************************)
(* Types and model classes (pydantic's __fields__)                         *)
(***************************************************************************)
TypeStr == [name |-> "str", bases |-> {"object"}]
TypeInt == [name |-> "int", bases |-> {"object"}]
TypeEuro == [name |-> "Euro", bases |-> {"Money"}, cur |-> Euro]
TypeColor == [name |-> "Color", bases |-> {"str", "Enum"}, members |-> ColorVals]

\* FieldTypeInfoFactory.field_info_from_type
FieldInfoFromType(type_) ==
    IF "Money" \in type_.bases THEN MoneyFieldInfo(type_.cur) ELSE None

\* a pydantic ModelField: origin is outer_type_.__origin__ ("none" when absent)
Field(name, alias, origin, type_, field_info) ==
    [name |-> name, alias |-> alias, origin |-> origin, type_ |-> type_,
     field_info |-> field_info]

\* an XlsxModel subclass; config is its __config__
Class(name, fields, config) ==
    [t |-> "class", name |-> name, bases |-> {"XlsxModel"}, fields |-> fields,
     config |-> config]

\* class Item(XlsxModel): sku: str = Field(alias="SKU"); qty: int
Item(config) ==
    Class("Item",
          <<Field("sku", "SKU", "none", TypeStr, FieldInfo),
            Field("qty", "qty", "none", TypeInt, FieldInfo)>>,
          config)

\* class Empty(XlsxModel): pass
Empty(config) == Class("Empty", <<>>, config)

\* a cell coordinate such as "A2": column_index_from_string of its letters
\* and its row
Coordinate(col, row) == [col |-> col, row |-> row]

\* XlsxConfig with its defaults, title and ignore_additional_columns chosen
XlsxConfig(title, ignore) ==
    [title |-> title, font |-> None, ignore_additional_columns |-> ignore,
     freeze_cell |-> Coordinate(1, 2),
     disable_width_calculation |-> FALSE,
     print_horizontal_centered |-> TRUE, print_vertical_centered |-> TRUE,
     print_title_columns |-> None, print_title_rows |-> None]

Configs ==
    { XlsxConfig(t, i) : t \in {None, StrVal("My Sheet")}, i \in BOOLEAN }
    \cup { [XlsxConfig(None, FALSE) EXCEPT !.disable_width_calculation = TRUE] }

\* the fields a top-level model class is declared from
FieldPool(config) ==
    { Field("title", "title", "none", TypeStr, FieldInfo),
      Field("balance", "balance", "none", TypeEuro, XlsxFieldInfo(None, None)),
      Field("kind", "Kind", "none", TypeColor, XlsxFieldInfo(Font("Courier"), None)),
      Field("items", "items", "list", Item(config), FieldInfo),
      Field("stock", "Stock", "list", Item(config), FieldInfo),
      Field("nothing", "nothing", "list", Empty(config), FieldInfo),
      Field("meta", "meta", "dict", TypeInt, FieldInfo) }

RootField(config) == Field("__root__", "__root__", "list", Item(config), FieldInfo)

SeqsUpTo(n, S) == UNION { [1 .. k -> S] : k \in 0 .. n }

Names(fields) == { fields[i].name : i \in DOMAIN fields }

\* pydantic: a model with __root__ declares no other field; names are distinct
FieldSeqs(config) ==
    { fs \in SeqsUpTo(MaxFields, FieldPool(config)) :
        /\ Len(fs) >= 1
        /\ Cardinality(Names(fs)) = Len(fs) }
    \cup { <<RootField(config)>> }

Classes == UNION { { Class("Model", fs, c) : fs \in FieldSeqs(c) } : c \in Configs }

RECURSIVE Dicts(_)
ValuesOf(field) ==
    IF field.origin = "dict" THEN {DictVal}
    ELSE IF field.origin = "list"
    THEN { ListVal(l) :
             l \in SeqsUpTo(MaxRows, { ModelVal(field.type_, d) : d \in Dicts(field.type_.fields) }) }
    ELSE CASE field.type_.name = "str" -> { StrVal(s) : s \in StrVals }
           [] field.type_.name = "int" -> { IntVal(n) : n \in IntVals }
           [] field.type_.name = "Color" -> { EnumVal(s) : s \in field.type_.members }
           [] field.type_.name = "Euro" -> { MoneyInit(field.type_.cur, v) : v \in MoneyInputs }

\* all __dict__s of validated instances of a class with these fields
Dicts(fields) ==
    IF fields = <<>> THEN { <<>> }
    ELSE { (Head(fields).name :> v) @@ rest :
             v \in ValuesOf(Head(fields)), rest \in Dicts(Tail(fields)) }

(***************************************************************************)
(* composition.py, export side                                             *)
(***************************************************************************)
Raise(e) == [ok |-> FALSE, error |-> e]

\* __fields__ and __config__ of a model class or of an instance of one
FieldsOf(m) == IF m.t = "model" THEN m.cls.fields ELSE m.fields
ConfigOf(m) == IF m.t = "model" THEN m.cls.config ELSE m.config

\* mutant of ScanFields: the loop ends at the first list of models
RECURSIVE ScanFieldsBreak(_, _, _)
ScanFieldsBreak(fields, i, contains_list_of_models) ==
    IF i > Len(fields)
    THEN [ok |-> TRUE, contains_list_of_models |-> contains_list_of_models]
    ELSE LET prop == fields[i]
             typ  == prop.origin
         IN IF typ # "none" /\ typ = "list" /\ "XlsxModel" \in prop.type_.bases
            THEN [ok |-> TRUE, contains_list_of_models |-> TRUE]
            ELSE IF typ # "none" /\ typ = "dict"
            THEN Raise("TypeError")
            ELSE ScanFieldsBreak(fields, i + 1, contains_list_of_models)

\* the loop of CompositionFactory.from_model, from field i on
RECURSIVE ScanFields(_, _, _)
ScanFields(fields, i, contains_list_of_models) ==
    IF i > Len(fields)
    THEN [ok |-> TRUE, contains_list_of_models |-> contains_list_of_models]
    ELSE LET prop == fields[i]
             typ  == prop.origin
         IN IF typ # "none" /\ typ = "list" /\ "XlsxModel" \in prop.type_.bases
            THEN ScanFields(fields, i + 1, TRUE)
            ELSE IF typ # "none" /\ typ = "dict"
            THEN Raise("TypeError")
            ELSE ScanFields(fields, i + 1, contains_list_of_models)

\* CompositionFactory.from_model
FromModel(m) ==
    LET scan == ScanFields(FieldsOf(m), 1, FALSE)
    IN IF ~scan.ok THEN scan
       ELSE IF "__root__" \in Names(FieldsOf(m)) /\ scan.contains_list_of_models
       THEN [ok |-> TRUE, composition |-> "RootCollectionComposition"]
       ELSE IF scan.contains_list_of_models
       THEN [ok |-> TRUE, composition |-> "CollectionComposition"]
       ELSE [ok |-> TRUE, composition |-> "SingleModelComposition"]

\* mutant of CompositionInit: the length of data is not checked
CompositionInitAnyLength(composition, data, title, config) ==
    IF data.t \in {"int", "float", "money", "model"} THEN Raise("TypeError")
    ELSE IF data.t \in {"str", "enum"}
    THEN (IF Len(data.s) < 1 THEN Raise("ValueError") ELSE Raise("AttributeError"))
    ELSE IF data.t = "dict" THEN Raise("AttributeError")
    ELSE IF \E i \in DOMAIN data.l : Len(FieldsOf(data.l[i])) = 0 THEN Raise("ValueError")
    ELSE [ok |-> TRUE, composition |-> composition, data |-> data.l, title |-> title,
          config |-> config]

\* Composition.__init__: len(data), then model.__fields__ of every element
CompositionInit(composition, data, title, config) ==
    IF data.t \in {"int", "float", "money", "model"} THEN Raise("TypeError")
    ELSE IF data.t \in {"str", "enum"}
    THEN (IF Len(data.s) < 1 THEN Raise("ValueError") ELSE Raise("AttributeError"))
    ELSE IF data.t = "dict" THEN Raise("AttributeError")
    ELSE IF Len(data.l) < 1 THEN Raise("ValueError")
    ELSE IF \E i \in DOMAIN data.l : Len(FieldsOf(data.l[i])) = 0 THEN Raise("ValueError")
    ELSE [ok |-> TRUE, composition |-> composition, data |-> data.l, title |-> title,
          config |-> config]

\* SingleModelComposition.sheets_from_model
SingleSheetsFromModel(m) ==
    LET title == IF ConfigOf(m).title # None THEN ConfigOf(m).title.s ELSE m.cls.name
        sheet == CompositionInit("SingleModelComposition", ListVal(<<m>>), title, ConfigOf(m))
    IN IF sheet.ok THEN [ok |-> TRUE, sheets |-> <<sheet>>] ELSE sheet

\* RootCollectionComposition.sheets_from_model
RootSheetsFromModel(m) ==
    LET root == m.d["__root__"]
    IN IF ConfigOf(m).title = None /\ Len(root.l) = 0 THEN Raise("IndexError")
       ELSE LET title == IF ConfigOf(m).title # None THEN ConfigOf(m).title.s
                         ELSE root.l[1].cls.name
                sheet == CompositionInit("RootCollectionComposition", root, title, ConfigOf(m))
            IN IF sheet.ok THEN [ok |-> TRUE, sheets |-> <<sheet>>] ELSE sheet

\* mutant of CollectionSheets: a field no batch can be built from is left out
RECURSIVE CollectionSheetsSkip(_, _, _)
CollectionSheetsSkip(m, i, rsl) ==
    IF i > Len(FieldsOf(m)) THEN [ok |-> TRUE, sheets |-> rsl]
    ELSE LET field == FieldsOf(m)[i]
             sheet == CompositionInit("CollectionComposition", m.d[field.name],
                                      field.alias, ConfigOf(m))
         IN IF sheet.ok THEN CollectionSheetsSkip(m, i + 1, Append(rsl, sheet))
            ELSE CollectionSheetsSkip(m, i + 1, rsl)

\* CollectionComposition.sheets_from_model, from field i on
RECURSIVE CollectionSheets(_, _, _)
CollectionSheets(m, i, rsl) ==
    IF i > Len(FieldsOf(m)) THEN [ok |-> TRUE, sheets |-> rsl]
    ELSE LET field == FieldsOf(m)[i]
             sheet == CompositionInit("CollectionComposition", m.d[field.name],
                                      field.alias, ConfigOf(m))
         IN IF sheet.ok THEN CollectionSheets(m, i + 1, Append(rsl, sheet)) ELSE sheet

CollectionSheetsFromModel(m) == CollectionSheets(m, 1, <<>>)

SheetsFromModel(composition, m) ==
    CASE composition = "SingleModelComposition" -> SingleSheetsFromModel(m)
      [] composition = "RootCollectionComposition" -> RootSheetsFromModel(m)
      [] composition = "CollectionComposition" -> CollectionSheetsFromModel(m)

\* XlsxModel._property_keys
PropertyKeys(m) == [i \in DOMAIN FieldsOf(m) |-> FieldsOf(m)[i].alias]

\* mutant of CellOf: a Money is written as its rounded amount / 10^minor_unit
CellOfRounded(v) ==
    CASE v.t = "money" ->
            LET dec == v.amount * Pow(10, Prec - v.cls.minor_unit)
            IN FloatVal(Float(dec, IF Exact(dec) THEN 0 ELSE 1))
      [] v.t = "enum" -> StrVal(v.s)
      [] OTHER -> v

\* the cell openpyxl holds for a value of row.dict(): a Money is the float it
\* subclasses, an enum member the str it subclasses
CellOf(v) ==
    CASE v.t = "money" -> FloatVal(v.value)
      [] v.t = "enum" -> StrVal(v.s)
      [] OTHER -> v

\* isinstance(v, str)
IsStr(v) == v.t \in {"str", "enum"}

Max(S) == CHOOSE x \in S : \A y \in S : y <= x

\* mutant of Ceil93: the product is truncated, int(value * 0.93)
Int93(value) == (value * 93) \div 100

\* math.ceil(value * 0.93); the double product rounds to the exact one
Ceil93(value) == (value * 93 + 99) \div 100

\* the scan of Composition.__calc_column_widths for one key, from entry i on
RECURSIVE WidthOfKey(_, _, _, _)
WidthOfKey(data, key, i, width) ==
    IF i > Len(data) THEN width
    ELSE LET v == data[i].d[key]
         IN IF ~IsStr(v) THEN WidthOfKey(data, key, i + 1, width)
            ELSE IF Len(v.s) > width THEN WidthOfKey(data, key, i + 1, Len(v.s))
            ELSE WidthOfKey(data, key, i + 1, width)

\* Composition.__calc_column_widths
CalcColumnWidths(sheet) ==
    LET keys == [i \in DOMAIN FieldsOf(sheet.data[1]) |-> FieldsOf(sheet.data[1])[i].name]
        widths_per_key == [i \in DOMAIN keys |-> WidthOfKey(sheet.data, keys[i], 1, 0)]
    IN [i \in DOMAIN keys |->
          IF Ceil93(widths_per_key[i]) > 5 THEN Ceil93(widths_per_key[i]) ELSE 5]

\* the font branches of Composition.__apply_apperance; None is an unset font
\* (the second branch assigns field_info.font, as the code does)
ColumnFont(field_info, field_type_info, config) ==
    IF HasAttr(field_info, "font") /\ field_info.font # None
    THEN [ok |-> TRUE, font |-> field_info.font]
    ELSE IF HasAttr(field_type_info, "font") /\ field_type_info.font # None
    THEN (IF HasAttr(field_info, "font") THEN [ok |-> TRUE, font |-> field_info.font]
          ELSE Raise("AttributeError"))
    ELSE IF config.font # None
    THEN [ok |-> TRUE, font |-> config.font]
    ELSE [ok |-> TRUE, font |-> None]

\* the number format branches of Composition.__apply_apperance
ColumnNumberFormat(field_info, field_type_info) ==
    IF HasAttr(field_info, "number_format") /\ field_info.number_format # None
    THEN field_info.number_format
    ELSE IF HasAttr(field_type_info, "number_format") /\ field_type_info.number_format # None
    THEN field_type_info.number_format
    ELSE None

MaxColumn(rows) == IF rows = <<>> THEN 1 ELSE Max({ Len(rows[i]) : i \in DOMAIN rows } \cup {1})

\* Composition.__apply_apperance: the column dimensions, or the error raised
ApplyApperance(sheet, rows) ==
    LET fields  == FieldsOf(sheet.data[1])
        lengths == CalcColumnWidths(sheet)
        cols    == 1 .. MaxColumn(rows)
        Info(col) == FieldInfoFromType(fields[col].type_)
        FontOf(col) == ColumnFont(fields[col].field_info, Info(col), sheet.config)
    IN IF \E col \in cols : col > Len(fields) THEN Raise("IndexError")
       ELSE IF \E col \in cols : ~FontOf(col).ok THEN Raise("AttributeError")
       ELSE [ok |-> TRUE,
             columns |-> [col \in cols |->
                [font |-> FontOf(col).font,
                 number_format |-> ColumnNumberFormat(fields[col].field_info, Info(col)),
                 validation |-> IF "Enum" \in fields[col].type_.bases
                                THEN fields[col].type_.members ELSE {},
                 width |-> lengths[col]]]]

\* pyxl_utils.cell.get_column_letter, for the first 26 columns
ColumnLetter(n) ==
    <<"A", "B", "C", "D", "E", "F", "G", "H", "I", "J", "K", "L", "M",
      "N", "O", "P", "Q", "R", "S", "T", "U", "V", "W", "X", "Y", "Z">>[n]

\* XlsxConfig._print_title_columns
PrintTitleColumns(config) ==
    IF config.freeze_cell = None THEN None
    ELSE LET max_column_num == config.freeze_cell.col - 1
         IN IF max_column_num = 0 THEN None
            ELSE StrVal("A:" \o ColumnLetter(max_column_num))

\* XlsxConfig._print_title_rows
PrintTitleRows(config) ==
    IF config.print_title_rows # None THEN config.print_title_rows
    ELSE IF config.freeze_cell = None THEN None
    ELSE LET freeze_row == config.freeze_cell.row - 1
         IN IF freeze_row = 0 THEN None
            ELSE StrVal("1:" \o NatStr(freeze_row))

\* Composition.__apply_print_settings: what it assigns to the worksheet
PrintSettings(config) ==
    [horizontalCentered |-> config.print_horizontal_centered,
     verticalCentered |-> config.print_vertical_centered,
     print_title_cols |-> PrintTitleColumns(config),
     print_title_rows |-> PrintTitleRows(config)]

\* Composition.__dimensions: last column and last row of the table
Dimensions(sheet) == [col |-> Len(FieldsOf(sheet.data[1])), row |-> Len(sheet.data) + 1]

\* Composition.__worksheet_insert_header: the row appended
HeaderRow(sheet) ==
    [i \in DOMAIN PropertyKeys(sheet.data[1]) |-> StrVal(PropertyKeys(sheet.data[1])[i])]

\* Composition.__worksheet_insert_content: the rows appended
ContentRows(sheet) ==
    [r \in DOMAIN sheet.data |->
        [i \in DOMAIN FieldsOf(sheet.data[r]) |->
            CellOf(sheet.data[r].d[FieldsOf(sheet.data[r])[i].name])]]

\* Composition.populate_worksheet: the worksheet, or the error raised
PopulateWorksheet(sheet) ==
    LET header  == HeaderRow(sheet)
        content == ContentRows(sheet)
        rows    == <<header>> \o content
        apperance == ApplyApperance(sheet, rows)
    IN IF sheet.data = <<>> THEN Raise("IndexError")
       ELSE IF ~apperance.ok THEN apperance
       ELSE [ok |-> TRUE, title |-> sheet.title, rows |-> rows,
             freeze_panes |-> sheet.config.freeze_cell,
             columns |-> apperance.columns,
             print |-> PrintSettings(sheet.config),
             table |-> Dimensions(sheet)]

\* XlsxModel.workbook: the batches of sheets_from_model and the workbook
WorkbookOf(m) ==
    LET composition == FromModel(m)
        batches == IF composition.ok THEN SheetsFromModel(composition.composition, m)
                   ELSE None
        worksheets == [i \in DOMAIN batches.sheets |-> PopulateWorksheet(batches.sheets[i])]
    IN [sheets |-> batches,
        wb |-> IF ~composition.ok THEN composition
               ELSE IF ~batches.ok THEN batches
               ELSE IF \E i \in DOMAIN worksheets : ~worksheets[i].ok
               THEN worksheets[CHOOSE i \in DOMAIN worksheets :
                                 /\ ~worksheets[i].ok
                                 /\ \A j \in 1 .. i - 1 : worksheets[j].ok]
               ELSE [ok |-> TRUE, worksheets |-> worksheets]]

(***************************************************************************)
(* pydantic: BaseModel.parse_obj, as far as the import needs it.  Every    *)
(* field is required and looked up by its alias, keys that are no alias    *)
(* are ignored (Extra.ignore), a value of the wrong type is an error.      *)
(***************************************************************************)
ValidateCell(field, cell) ==
    CASE field.type_.name = "str" /\ cell.t = "str" -> [ok |-> TRUE, v |-> StrVal(cell.s)]
      [] field.type_.name = "int" /\ cell.t = "int" -> [ok |-> TRUE, v |-> IntVal(cell.n)]
      [] field.type_.name = "Color" /\ cell.t = "str" ->
            IF cell.s \in field.type_.members THEN [ok |-> TRUE, v |-> EnumVal(cell.s)]
            ELSE Raise("ValidationError")
      [] field.type_.name = "Euro" /\ cell.t = "float" ->
            [ok |-> TRUE, v |-> Validate(field.type_.cur, cell.value)]
      [] OTHER -> Raise("ValidationError")

\* a model of class cls from a mapping of aliases to cells
ParseEntry(cls, entry) ==
    LET fields == cls.fields
        Got(i) == ValidateCell(fields[i], entry[fields[i].alias])
    IN IF \E i \in DOMAIN fields :
             \/ fields[i].origin # "none"
             \/ fields[i].alias \notin DOMAIN entry
             \/ ~Got(i).ok
       THEN Raise("ValidationError")
       ELSE [ok |-> TRUE,
             v |-> ModelVal(cls, [n \in Names(fields) |->
                     Got(CHOOSE i \in DOMAIN fields : fields[i].name = n).v])]

\* a List[record] field from a list of mappings
ParseList(field, entries) ==
    LET Got(i) == ParseEntry(field.type_, entries[i])
    IN IF field.origin # "list" \/ "XlsxModel" \notin field.type_.bases
       THEN Raise("ValidationError")
       ELSE IF \E i \in DOMAIN entries : ~Got(i).ok THEN Raise("ValidationError")
       ELSE [ok |-> TRUE, v |-> ListVal([i \in DOMAIN entries |-> Got(i).v])]

\* cls.parse_obj(data): data is one mapping (kind "entry"), a list of mappings
\* (kind "list", a custom root) or a mapping of aliases to lists (kind "dict")
ParseObj(cls, data) ==
    LET fields == cls.fields
    IN CASE data.kind = "entry" -> ParseEntry(cls, data.entry)
         [] data.kind = "list" ->
              IF Names(fields) # {"__root__"} THEN Raise("ValidationError")
              ELSE LET got == ParseList(fields[1], data.list)
                   IN IF ~got.ok THEN got
                      ELSE [ok |-> TRUE, v |-> ModelVal(cls, "__root__" :> got.v)]
         [] data.kind = "dict" ->
              LET Got(i) == ParseList(fields[i], data.dict[fields[i].alias])
              IN IF \E i \in DOMAIN fields :
                       fields[i].alias \notin DOMAIN data.dict \/ ~Got(i).ok
                 THEN Raise("ValidationError")
                 ELSE [ok |-> TRUE,
                       v |-> ModelVal(cls, [n \in Names(fields) |->
                               Got(CHOOSE i \in DOMAIN fields : fields[i].name = n).v])]

(***************************************************************************)
(* composition.py and model.py, import side                                *)
(***************************************************************************)
\* XlsxModel._ignore_key; key is a header cell
IgnoreKey(cls, key) ==
    IF HasAttr(cls.config, "ignore_additional_rows") /\ ~cls.config["ignore_additional_rows"]
    THEN FALSE
    ELSE IF key = None THEN TRUE
    ELSE key.s \notin { PropertyKeys(cls)[i] : i \in DOMAIN PropertyKeys(cls) }

\* ws.max_row, ws.cell(row, column).value
MaxRow(ws) == IF ws.rows = <<>> THEN 1 ELSE Len(ws.rows)

CellValue(ws, row, column) ==
    IF row \in DOMAIN ws.rows /\ column \in DOMAIN ws.rows[row] THEN ws.rows[row][column]
    ELSE None

\* the dict key a header cell makes
KeyOf(cell) == IF cell = None THEN "None" ELSE cell.s

\* the inner loop of the workbook_to_model methods: the entry of one row
EntryOfRow(cls, ws, row) ==
    LET kept == { column \in 1 .. MaxColumn(ws.rows) :
                    ~IgnoreKey(cls, CellValue(ws, 1, column)) }
        keys == { KeyOf(CellValue(ws, 1, column)) : column \in kept }
        \* a later column with the same header overwrites an earlier one
        Last(key) == Max({ column \in kept : KeyOf(CellValue(ws, 1, column)) = key })
    IN [key \in keys |-> CellValue(ws, row, Last(key))]

\* SingleModelComposition.workbook_to_model, up to the call of parse_obj
SingleWorkbookToModel(cls, worksheets) ==
    [ok |-> TRUE, data |-> [kind |-> "entry", entry |-> EntryOfRow(cls, worksheets[1], 2)]]

\* RootCollectionComposition.workbook_to_model, up to the call of parse_obj
RootWorkbookToModel(cls, worksheets) ==
    LET ws == worksheets[1]
    IN [ok |-> TRUE,
        data |-> [kind |-> "list",
                  list |-> [r \in 1 .. MaxRow(ws) - 1 |-> EntryOfRow(cls, ws, r + 1)]]]

\* CollectionComposition.workbook_to_model, up to the call of parse_obj
CollectionWorkbookToModel(cls, worksheets) ==
    LET fields == cls.fields
        Titled(alias) == { i \in DOMAIN worksheets : worksheets[i].title = alias }
        \* wb[prop.alias]
        Sheet(alias) == worksheets[CHOOSE i \in Titled(alias) : \A j \in Titled(alias) : i <= j]
        \* model.__fields__[prop.alias].type_
        CurrentModel(alias) == fields[CHOOSE i \in DOMAIN fields : fields[i].name = alias].type_
        Rows(i) == LET ws == Sheet(fields[i].alias)
                   IN [r \in 1 .. MaxRow(ws) - 1 |->
                         EntryOfRow(CurrentModel(fields[i].alias), ws, r + 1)]
        Failing(i) == \/ Titled(fields[i].alias) = {}
                      \/ fields[i].alias \notin Names(fields)
                      \/ /\ MaxRow(Sheet(fields[i].alias)) >= 2
                         /\ "XlsxModel" \notin CurrentModel(fields[i].alias).bases
    IN IF \E i \in DOMAIN fields : Failing(i)
       THEN LET i == CHOOSE i \in DOMAIN fields :
                        Failing(i) /\ \A j \in 1 .. i - 1 : ~Failing(j)
            IN IF Titled(fields[i].alias) = {} \/ fields[i].alias \notin Names(fields)
               THEN Raise("KeyError")
               ELSE Raise("AttributeError")
       ELSE [ok |-> TRUE,
             data |-> [kind |-> "dict",
                       dict |-> [alias \in { fields[i].alias : i \in DOMAIN fields } |->
                                   Rows(CHOOSE i \in DOMAIN fields : fields[i].alias = alias)]]]

\* XlsxModel.from_workbook: the data handed to parse_obj and the result
FromWorkbookOf(cls, worksheets) ==
    LET composition == FromModel(cls)
        read == CASE composition.composition = "SingleModelComposition" ->
                       SingleWorkbookToModel(cls, worksheets)
                  [] composition.composition = "RootCollectionComposition" ->
                       RootWorkbookToModel(cls, worksheets)
                  [] composition.composition = "CollectionComposition" ->
                       CollectionWorkbookToModel(cls, worksheets)
    IN IF ~composition.ok THEN [parsed |-> None, loaded |-> composition]
       ELSE IF ~read.ok THEN [parsed |-> None, loaded |-> read]
       ELSE [parsed |-> read.data, loaded |-> ParseObj(cls, read.data)]

\* the worksheets with a column headed header added to the right of sheet s
WithColumn(worksheets, s, header, cell) ==
    [worksheets EXCEPT ![s].rows =
        [r \in DOMAIN @ |-> Append(@[r], IF r = 1 THEN StrVal(header) ELSE cell)]]

\* the worksheets with a row of empty cells added to sheet s as row r
WithEmptyRow(worksheets, s, r) ==
    [worksheets EXCEPT ![s].rows =
        SubSeq(@, 1, r - 1) \o << [c \in DOMAIN @[1] |-> None] >> \o SubSeq(@, r, Len(@))]

(***************************************************************************)
(* SpecMoney                                                               *)
(***************************************************************************)
InitMoney ==
    /\ model = None /\ sheets = None /\ wb = None
    /\ opened = None /\ parsed = None /\ loaded = None
    /\ resolving = None /\ dimension = None
    /\ printing = None /\ printed = None
    /\ pc = None /\ book = None /\ saved = None
    /\ money \in { MoneyInit(c, v) : c \in Currencies, v \in Floats }
    /\ rebuilt = None
    /\ shown = ""
    /\ formatted = ""

\* the float amount / 10^minor_unit (true division, correctly rounded)
ScaledDown(m) ==
    { [dec |-> m.amount * Pow(10, Prec - m.cls.minor_unit), err |-> e] :
        e \in ErrsOf(m.amount * Pow(10, Prec - m.cls.minor_unit)) }

Rebuild ==
    /\ rebuilt = None
    /\ \E v \in ScaledDown(money) : rebuilt' = Validate(money.cls, v)
    /\ UNCHANGED <<money, shown, formatted>>
    /\ UNCHANGED <<xlsxVars, formatVars, printVars, exportVars>>

Str ==
    /\ shown = ""
    /\ shown' = MoneyStr(money)
    /\ UNCHANGED <<money, rebuilt, formatted>>
    /\ UNCHANGED <<xlsxVars, formatVars, printVars, exportVars>>

\* type(money).number_format()
FormatNumber ==
    /\ formatted = ""
    /\ formatted' = NumberFormat(money.cls)
    /\ UNCHANGED <<money, rebuilt, shown>>
    /\ UNCHANGED <<xlsxVars, formatVars, printVars, exportVars>>

NextMoney == Rebuild \/ Str \/ FormatNumber

SpecMoney == InitMoney /\ [][NextMoney]_vars

(***************************************************************************)
(* Spec: export and import of a model instance                             *)
(***************************************************************************)
Init ==
    /\ \E cls \in Classes : \E d \in Dicts(cls.fields) : model = ModelVal(cls, d)
    /\ sheets = None /\ wb = None
    /\ opened = None /\ parsed = None /\ loaded = None
    /\ money = None /\ rebuilt = None /\ shown = "" /\ formatted = ""
    /\ resolving = None /\ dimension = None
    /\ printing = None /\ printed = None
    /\ pc = None /\ book = None /\ saved = None

\* model.workbook()
Workbook ==
    /\ wb = None
    /\ sheets' = WorkbookOf(model).sheets
    /\ wb' = WorkbookOf(model).wb
    /\ UNCHANGED <<model, opened, parsed, loaded>>
    /\ UNCHANGED <<moneyVars, formatVars, printVars, exportVars>>

\* Model.from_workbook(wb) on the exported workbook, as it is, after a user
\* added a column the model does not describe, or after a user left a row
\* below the first data row empty
FromWorkbook ==
    /\ wb # None /\ wb.ok
    /\ loaded = None
    /\ \E worksheets \in {wb.worksheets}
            \cup { WithColumn(wb.worksheets, s, "note", StrVal("n/a")) :
                     s \in DOMAIN wb.worksheets }
            \cup UNION { { WithEmptyRow(wb.worksheets, s, r) :
                             r \in 3 .. Len(wb.worksheets[s].rows) + 1 } :
                         s \in DOMAIN wb.worksheets } :
          /\ opened' = worksheets
          /\ parsed' = FromWorkbookOf(model.cls, worksheets).parsed
          /\ loaded' = FromWorkbookOf(model.cls, worksheets).loaded
    /\ UNCHANGED <<model, sheets, wb>>
    /\ UNCHANGED <<moneyVars, formatVars, printVars, exportVars>>

Next == Workbook \/ FromWorkbook

Spec == Init /\ [][Next]_vars

(***************************************************************************)
(* SpecFormat: the font and number format of one column                    *)
(***************************************************************************)
\* a field's field_info: pydantic's FieldInfo, or what XlsxField(...) returns
FieldInfos ==
    {FieldInfo} \cup { XlsxFieldInfo(f, n) : f \in {None, Font("Arial"), Font("Courier")},
                                            n \in {None, StrVal("0.00")} }

\* what FieldTypeInfoFactory.field_info_from_type returns: None, or the
\* XlsxFieldInfo of a FieldTypeInfo implementation's field_info()
FieldTypeInfos ==
    {None} \cup { MoneyFieldInfo(c) : c \in {Euro, UnitedStatesDollar} }
           \cup { XlsxFieldInfo(Font("Times"), n) : n \in {None, StrVal("0%")} }

InitFormat ==
    /\ model = None /\ sheets = None /\ wb = None
    /\ opened = None /\ parsed = None /\ loaded = None
    /\ money = None /\ rebuilt = None /\ shown = "" /\ formatted = ""
    /\ printing = None /\ printed = None
    /\ pc = None /\ book = None /\ saved = None
    /\ resolving \in [field_info : FieldInfos, field_type_info : FieldTypeInfos,
                      config : { [XlsxConfig(None, FALSE) EXCEPT !.font = f] :
                                   f \in {None, Font("Helvetica")} }]
    /\ dimension = None

\* one iteration of the column loop of Composition.__apply_apperance
ApplyColumn ==
    /\ dimension = None
    /\ dimension' =
         LET font == ColumnFont(resolving.field_info, resolving.field_type_info,
                                resolving.config)
         IN IF ~font.ok THEN font
            ELSE [ok |-> TRUE, font |-> font.font,
                  number_format |-> ColumnNumberFormat(resolving.field_info,
                                                       resolving.field_type_info)]
    /\ UNCHANGED resolving
    /\ UNCHANGED <<xlsxVars, moneyVars, printVars, exportVars>>

NextFormat == ApplyColumn

SpecFormat == InitFormat /\ [][NextFormat]_vars

(***************************************************************************)
(* SpecPrint: the print settings of one worksheet (config.py)              *)
(***************************************************************************)
\* the freeze cell lies in columns and rows 1 .. MaxFreeze
MaxFreeze == 4

\* the configs whose print settings are applied
PrintConfigs ==
    { [XlsxConfig(None, FALSE) EXCEPT !.freeze_cell = f,
                                      !.print_title_columns = c,
                                      !.print_title_rows = r] :
        f \in {None} \cup { Coordinate(col, row) : col \in 1 .. MaxFreeze, row \in 1 .. MaxFreeze },
        c \in {None, StrVal(""), StrVal("A:B")},
        r \in {None, StrVal(""), StrVal("1:2")} }

InitPrint ==
    /\ model = None /\ sheets = None /\ wb = None
    /\ opened = None /\ parsed = None /\ loaded = None
    /\ money = None /\ rebuilt = None /\ shown = "" /\ formatted = ""
    /\ resolving = None /\ dimension = None
    /\ pc = None /\ book = None /\ saved = None
    /\ printing \in PrintConfigs
    /\ printed = None

\* Composition.__apply_print_settings
ApplyPrintSettings ==
    /\ printed = None
    /\ printed' = PrintSettings(printing)
    /\ UNCHANGED printing
    /\ UNCHANGED <<xlsxVars, moneyVars, formatVars, exportVars>>

NextPrint == ApplyPrintSettings

SpecPrint == InitPrint /\ [][NextPrint]_vars

(***************************************************************************)
(* SpecExport: XlsxModel.to_file step by step (model.py 44-62 and          *)
(* Composition.populate_worksheet)                                         *)
(***************************************************************************)
\* a worksheet nothing was written to: wb.active of Workbook(), or what
\* wb.create_sheet() returns
BlankSheet ==
    [ok |-> TRUE, title |-> "Sheet", rows |-> <<>>, freeze_panes |-> None,
     columns |-> <<>>, print |-> None, table |-> None]

\* one statement of Composition.populate_worksheet on worksheet ws: the
\* worksheet it leaves, or the error raised
PopulateStep(step, sheet, ws) ==
    CASE step = "title" -> [ws EXCEPT !.title = sheet.title]
      [] step = "insert_header" -> [ws EXCEPT !.rows = Append(@, HeaderRow(sheet))]
      [] step = "insert_content" -> [ws EXCEPT !.rows = @ \o ContentRows(sheet)]
      [] step = "freeze_cells" ->
            IF sheet.config.freeze_cell # None
            THEN [ws EXCEPT !.freeze_panes = sheet.config.freeze_cell]
            ELSE ws
      [] step = "apply_apperance" ->
            LET apperance == ApplyApperance(sheet, ws.rows)
            IN IF apperance.ok THEN [ws EXCEPT !.columns = apperance.columns]
               ELSE apperance
      [] step = "apply_print_settings" -> [ws EXCEPT !.print = PrintSettings(sheet.config)]
      [] step = "data_table" -> [ws EXCEPT !.table = Dimensions(sheet)]

\* mutant of StepAfter: __apply_apperance is called before the header and the
\* content are inserted
StepAfterApperanceFirst(step) ==
    CASE step = "title" -> "apply_apperance"
      [] step = "apply_apperance" -> "insert_header"
      [] step = "insert_header" -> "insert_content"
      [] step = "insert_content" -> "freeze_cells"
      [] step = "freeze_cells" -> "apply_print_settings"
      [] step = "apply_print_settings" -> "data_table"
      [] step = "data_table" -> "end"

\* the statement of Composition.populate_worksheet that follows a statement
StepAfter(step) ==
    CASE step = "title" -> "insert_header"
      [] step = "insert_header" -> "insert_content"
      [] step = "insert_content" -> "freeze_cells"
      [] step = "freeze_cells" -> "apply_apperance"
      [] step = "apply_apperance" -> "apply_print_settings"
      [] step = "apply_print_settings" -> "data_table"
      [] step = "data_table" -> "end"

InitExport ==
    /\ \E cls \in Classes : \E d \in Dicts(cls.fields) : model = ModelVal(cls, d)
    /\ sheets = None /\ wb = None
    /\ opened = None /\ parsed = None /\ loaded = None
    /\ money = None /\ rebuilt = None /\ shown = "" /\ formatted = ""
    /\ resolving = None /\ dimension = None
    /\ printing = None /\ printed = None
    /\ pc = [at |-> "workbook"]
    /\ book = None /\ saved = None

\* workbook(): wb = Workbook();
\* sheets = CompositionFactory.from_model(self).sheets_from_model(self)
CreateSheets ==
    /\ pc = [at |-> "workbook"]
    /\ LET composition == FromModel(model)
           batches == IF composition.ok
                      THEN SheetsFromModel(composition.composition, model)
                      ELSE composition
       IN /\ book' = <<BlankSheet>>
          /\ sheets' = IF composition.ok THEN batches ELSE None
          /\ IF batches.ok
             THEN pc' = [at |-> "populate", sheet |-> 1, step |-> "title"] /\ wb' = wb
             ELSE pc' = [at |-> "raised"] /\ wb' = batches
    /\ UNCHANGED <<model, opened, parsed, loaded, saved>>
    /\ UNCHANGED <<moneyVars, formatVars, printVars>>

\* workbook(): one statement of sheet.populate_worksheet(ws); after the last
\* one the loop goes on with ws = wb.create_sheet(), or ends
Populate ==
    /\ pc.at = "populate"
    /\ LET i    == pc.sheet
           got  == PopulateStep(pc.step, sheets.sheets[i], book[i])
           next == StepAfter(pc.step)
       IN IF ~got.ok
          THEN pc' = [at |-> "raised"] /\ wb' = got /\ book' = book
          ELSE /\ wb' = wb
               /\ IF next # "end"
                  THEN /\ book' = [book EXCEPT ![i] = got]
                       /\ pc' = [pc EXCEPT !.step = next]
                  ELSE IF i < Len(sheets.sheets)
                  THEN /\ book' = Append([book EXCEPT ![i] = got], BlankSheet)
                       /\ pc' = [at |-> "populate", sheet |-> i + 1, step |-> "title"]
                  ELSE /\ book' = [book EXCEPT ![i] = got]
                       /\ pc' = [at |-> "return"]
    /\ UNCHANGED <<model, sheets, opened, parsed, loaded, saved>>
    /\ UNCHANGED <<moneyVars, formatVars, printVars>>

\* workbook(): return wb
ReturnWorkbook ==
    /\ pc = [at |-> "return"]
    /\ wb' = [ok |-> TRUE, worksheets |-> book]
    /\ pc' = [at |-> "save"]
    /\ UNCHANGED <<model, sheets, opened, parsed, loaded, book, saved>>
    /\ UNCHANGED <<moneyVars, formatVars, printVars>>

\* to_file(): wb.save(path)
Save ==
    /\ pc = [at |-> "save"]
    /\ saved' = wb
    /\ pc' = [at |-> "done"]
    /\ UNCHANGED <<model, sheets, wb, opened, parsed, loaded, book>>
    /\ UNCHANGED <<moneyVars, formatVars, printVars>>

NextExport == CreateSheets \/ Populate \/ ReturnWorkbook \/ Save

SpecExport == InitExport /\ [][NextExport]_vars

(***************************************************************************)
(* Properties                                                              *)
(***************************************************************************)
IsListOfModels(field) == field.origin = "list" /\ "XlsxModel" \in field.type_.bases
IsDict(field) == field.origin = "dict"

ListFields(m) == { i \in DOMAIN FieldsOf(m) : IsListOfModels(FieldsOf(m)[i]) }
DictFields(m) == { i \in DOMAIN FieldsOf(m) : IsDict(FieldsOf(m)[i]) }

\* the layout the schema of m is to have
Layout(m) ==
    IF DictFields(m) # {} THEN "ConfigurationError"
    ELSE IF ListFields(m) = {} THEN "SingleModelComposition"
    ELSE IF Len(FieldsOf(m)) = 1 /\ FieldsOf(m)[1].name = "__root__"
    THEN "RootCollectionComposition"
    ELSE "CollectionComposition"

Exported == wb # None
Imported == loaded # None

\* a list value no batch can be built from: empty, or holding a record
\* without fields
Unbatchable(v) ==
    /\ v.t = "list"
    /\ \/ Len(v.l) = 0
       \/ \E r \in DOMAIN v.l : Len(FieldsOf(v.l[r])) = 0

\* every collection of m holds a record, and every record in it a field
Batchable(m) ==
    \A i \in DOMAIN FieldsOf(m) : ~Unbatchable(m.d[FieldsOf(m)[i].name])

\* C1: importing the workbook that the export of an instance produced yields
\* an instance equal to the original, for every schema that classifies as
\* Single-Record, Root-Collection or Multi-Sheet-Collection (and every
\* instance whose collections can be batched).
C1_RoundTrip ==
    Layout(model) # "ConfigurationError" /\ Batchable(model) =>
        /\ Exported => wb.ok
        /\ Imported /\ opened = wb.worksheets => loaded = [ok |-> TRUE, v |-> model]

\* C3: the layout is a function of the schema alone: any dict field is an
\* error wherever it stands, else no list of models is Single-Record, a lone
\* __root__ list of models is Root-Collection and any other schema with a list
\* of models is Multi-Sheet-Collection; the class and an instance of it agree,
\* and the batches an export builds are of that layout.
C3_Classification ==
    /\ Layout(model) = "ConfigurationError" =>
          /\ FromModel(model) = Raise("TypeError")
          /\ Exported => wb = Raise("TypeError") /\ sheets = None
    /\ Layout(model) # "ConfigurationError" =>
          /\ FromModel(model) = [ok |-> TRUE, composition |-> Layout(model)]
          /\ Exported /\ sheets.ok =>
                \A i \in DOMAIN sheets.sheets : sheets.sheets[i].composition = Layout(model)
    /\ FromModel(model.cls) = FromModel(model)

\* C3 witness: an export refused for a dict field declared after a list of models
C3_Witness ==
    /\ Exported /\ wb = Raise("TypeError")
    /\ Len(FieldsOf(model)) = 2
    /\ IsListOfModels(FieldsOf(model)[1]) /\ IsDict(FieldsOf(model)[2])

\* C5: a batch that was constructed is never empty and none of its records is
\* without fields; an export of a Multi-Sheet-Collection or Root-Collection
\* instance with an empty collection, or with a record without fields in a
\* collection, fails as a whole.
C5_EmptyBatchRejected ==
    Exported =>
        /\ sheets # None /\ sheets.ok =>
              \A i \in DOMAIN sheets.sheets :
                  /\ Len(sheets.sheets[i].data) >= 1
                  /\ \A r \in DOMAIN sheets.sheets[i].data :
                        Len(FieldsOf(sheets.sheets[i].data[r])) >= 1
        /\ /\ Layout(model) \in {"CollectionComposition", "RootCollectionComposition"}
           /\ \E i \in DOMAIN FieldsOf(model) : Unbatchable(model.d[FieldsOf(model)[i].name])
           => ~sheets.ok /\ ~wb.ok

\* C5 witness: the export of a Multi-Sheet-Collection whose second collection
\* is empty failed with the ValueError of Composition.__init__
C5_Witness ==
    /\ Exported /\ wb = Raise("ValueError")
    /\ Layout(model) = "CollectionComposition"
    /\ Len(FieldsOf(model)) = 2
    /\ Len(model.d[FieldsOf(model)[1].name].l) >= 1
    /\ ~Unbatchable(model.d[FieldsOf(model)[1].name])
    /\ model.d[FieldsOf(model)[2].name] = ListVal(<<>>)

\* the mappings handed to parse_obj
Entries(data) ==
    CASE data.kind = "entry" -> {data.entry}
      [] data.kind = "list" -> { data.list[i] : i \in DOMAIN data.list }
      [] data.kind = "dict" ->
            UNION { { data.dict[a][i] : i \in DOMAIN data.dict[a] } : a \in DOMAIN data.dict }

\* the worksheets read hold a column headed "note", which no model describes
HasUnknownColumn ==
    \E s \in DOMAIN opened : StrVal("note") \in { opened[s].rows[1][c] : c \in DOMAIN opened[s].rows[1] }

\* C6: with ignore_additional_columns disabled, a column whose header is no
\* alias stays in the mapping handed to the record constructor.
C6_UnknownColumnKept ==
    /\ Imported /\ parsed # None
    /\ HasUnknownColumn
    /\ ~ConfigOf(model).ignore_additional_columns
    => \E e \in Entries(parsed) : "note" \in DOMAIN e

\* C7: the export of a Multi-Sheet-Collection whose collections can be
\* batched builds one batch per field, in field order, titled with the alias,
\* of one row per element of a collection field and of one row for any other
\* field.
C7_OneSheetPerField ==
    /\ Exported
    /\ Layout(model) = "CollectionComposition"
    /\ Batchable(model)
    => /\ sheets.ok
       /\ Len(sheets.sheets) = Len(FieldsOf(model))
       /\ \A i \in DOMAIN FieldsOf(model) :
             LET field == FieldsOf(model)[i]
             IN /\ sheets.sheets[i].title = field.alias
                /\ Len(sheets.sheets[i].data) =
                      IF IsListOfModels(field) THEN Len(model.d[field.name].l) ELSE 1

\* C2: a Money built from amount / 10^minor_unit of a Money has the amount of
\* that Money, whatever the sign of the value and the minor_unit.
C2_Idempotent == rebuilt # None => rebuilt.amount = money.amount

\* C2 witness: a negative value that the first construction had to round was
\* built again
C2_Witness ==
    /\ rebuilt # None
    /\ money.value.dec < 0
    /\ money.value.dec % Pow(10, Prec - money.cls.minor_unit) # 0
    /\ money.amount # 0

\* the font the precedence field annotation, type default, document default
\* gives; None when no source gives one
FontByPrecedence(r) ==
    IF HasAttr(r.field_info, "font") /\ r.field_info.font # None THEN r.field_info.font
    ELSE IF HasAttr(r.field_type_info, "font") /\ r.field_type_info.font # None
    THEN r.field_type_info.font
    ELSE r.config.font

C8_Display ==
    shown # "" =>
        shown = WithCode(money.cls,
                    Grouped(money.amount \div Pow(10, money.cls.minor_unit),
                            money.cls.thousands_separator)
                    \o money.cls.delimiter
                    \o ZeroPad(money.cls.minor_unit,
                               money.amount % Pow(10, money.cls.minor_unit)))

\* the cells written for Money values: sheet, row, column, the Money and the cell
MoneyCells ==
    { [money |-> sheets.sheets[s].data[r].d[FieldsOf(sheets.sheets[s].data[r])[c].name],
       cell |-> wb.worksheets[s].rows[r + 1][c]] :
        <<s, r, c>> \in
            { x \in (DOMAIN sheets.sheets) \X (1 .. MaxRows) \X (1 .. MaxFields) :
                /\ x[2] \in DOMAIN sheets.sheets[x[1]].data
                /\ x[3] \in DOMAIN FieldsOf(sheets.sheets[x[1]].data[x[2]])
                /\ "Money" \in FieldsOf(sheets.sheets[x[1]].data[x[2]])[x[3]].type_.bases } }

\* the Money fields of a Single-Record model
MoneyFields == { f \in FieldPool(ConfigOf(model)) :
                   f.name \in Names(FieldsOf(model)) /\ "Money" \in f.type_.bases }

\* C9 as stated: the cell written for a Money is the rounded amount / 10^minor_unit.
C9_CellIsRounded ==
    Exported /\ wb.ok =>
        \A x \in MoneyCells :
            x.cell.t = "float" /\ x.cell.value \in ScaledDown(x.money)

\* C9 amended: the cell written for a Money is the float the Money was built
\* from, unrounded; importing the sheet builds a Money of the same amount.
C9_CellIsInput ==
    /\ Exported /\ wb.ok =>
          \A x \in MoneyCells : x.cell = FloatVal(x.money.value)
    /\ Imported /\ Layout(model) = "SingleModelComposition" =>
          /\ loaded.ok
          /\ \A f \in MoneyFields : loaded.v.d[f.name].amount = model.d[f.name].amount

\* C9 witness: a balance built from 12.345, of amount 1235, was written as
\* 12.345 and imported with amount 1235
C9_Witness ==
    /\ Imported /\ loaded.ok
    /\ "balance" \in Names(FieldsOf(model))
    /\ model.d["balance"].value = Float(12345 * Pow(10, Prec - 3), 1)
    /\ model.d["balance"].amount = 1235
    /\ \E x \in MoneyCells : x.cell = FloatVal(Float(12345 * Pow(10, Prec - 3), 1))
    /\ loaded.v.d["balance"].amount = 1235

\* the longest str cell of column c below the header of a worksheet; 0 if none
Longest(ws, c) ==
    Max({0} \cup { Len(ws.rows[r][c].s) :
                     r \in { q \in 2 .. Len(ws.rows) : ws.rows[q][c].t = "str" } })

\* the least integer w with w >= 0.93 * n
CeilOf93(n) == CHOOSE w \in 0 .. n : 100 * w >= 93 * n /\ 100 * (w - 1) < 93 * n

\* C10: the width of every column of an exported sheet is
\* max(5, ceil(0.93 * L)), L the longest str cell of the column's data rows.
C10_ColumnWidth ==
    Exported /\ wb.ok =>
        \A s \in DOMAIN wb.worksheets :
            \A c \in DOMAIN wb.worksheets[s].columns :
                wb.worksheets[s].columns[c].width
                    = Max({5, CeilOf93(Longest(wb.worksheets[s], c))})

\* C10 witness: columns of longest length 10 and width 10, of longest length 4
\* and width 5, and without any str cell and width 5
C10_Witness ==
    /\ Exported /\ wb.ok
    /\ \A n \in {0, 4, 10} :
          \E s \in DOMAIN wb.worksheets :
              \E c \in DOMAIN wb.worksheets[s].columns :
                  /\ Longest(wb.worksheets[s], c) = n
                  /\ wb.worksheets[s].columns[c].width = IF n = 10 THEN 10 ELSE 5

\* C11: with disable_width_calculation enabled an export sets no width (no
\* integer) on any column.
C11_NoWidthWhenDisabled ==
    Exported /\ wb.ok /\ ConfigOf(model).disable_width_calculation =>
        \A s \in DOMAIN wb.worksheets :
            \A c \in DOMAIN wb.worksheets[s].columns :
                wb.worksheets[s].columns[c].width \notin Int

\* the print titles the freeze cell gives: the columns left of it, the rows
\* above it; None when there are none or no freeze cell is set
ColumnsLeftOf(freeze_cell) ==
    IF freeze_cell = None \/ freeze_cell.col = 1 THEN None
    ELSE StrVal("A:" \o ColumnLetter(freeze_cell.col - 1))

RowsAbove(freeze_cell) ==
    IF freeze_cell = None \/ freeze_cell.row = 1 THEN None
    ELSE StrVal("1:" \o NatStr(freeze_cell.row - 1))

\* print titles a and b are the same setting; an empty string and None both
\* leave the feature off
SameTitles(a, b) == a = b \/ (a \in {None, StrVal("")} /\ b \in {None, StrVal("")})

\* C12: the print-title columns and rows of the sheet are the explicit
\* print_title_columns / print_title_rows option when it is set, else what the
\* freeze cell gives.
C12_PrintTitles ==
    printed # None =>
        /\ SameTitles(printed.print_title_cols,
                      IF printing.print_title_columns # None THEN printing.print_title_columns
                      ELSE ColumnsLeftOf(printing.freeze_cell))
        /\ SameTitles(printed.print_title_rows,
                      IF printing.print_title_rows # None THEN printing.print_title_rows
                      ELSE RowsAbove(printing.freeze_cell))

\* the characters a currency may use as delimiter or thousands separator
Separators == {".", ",", " "}

RECURSIVE Repeat(_, _)
Repeat(ch, n) == IF n = 0 THEN "" ELSE ch \o Repeat(ch, n - 1)

\* a number format of the class with g in the grouping position and d in the
\* decimal position
FormatWith(cls, g, d) ==
    LET amount == WithCode(cls, "#" \o g \o Repeat("#", cls.minor_unit)
                                 \o "0" \o d \o Repeat("0", cls.minor_unit))
    IN amount \o ";[RED]-" \o amount

\* the displays of a Money that group by g and put d before the minor part,
\* whatever integer part they show
DisplaysWith(m, g, d) ==
    LET minor_amount == m.amount % Pow(10, m.cls.minor_unit)
    IN { WithCode(m.cls, Grouped(n, g) \o d \o ZeroPad(m.cls.minor_unit, minor_amount)) :
           n \in {m.amount - minor_amount, m.amount \div Pow(10, m.cls.minor_unit)} }

\* C13: str(money) and the number format of its class agree: one grouping
\* character and one decimal character stand in both, and the code is on the
\* same side of the amount.
C13_DisplayMatchesFormat ==
    shown # "" /\ formatted # "" =>
        \E g \in Separators, d \in Separators :
            /\ formatted = FormatWith(money.cls, g, d)
            /\ shown \in DisplaysWith(money, g, d)

\* the rows below the header that hold a cell with a value
NonEmptyRows(ws) ==
    { r \in 2 .. Len(ws.rows) : \E c \in DOMAIN ws.rows[r] : ws.rows[r][c] # None }

\* C14: a Root-Collection import hands one mapping per non-empty row below
\* the header to the record constructor, and none for a row of empty cells.
C14_RootSkipsEmptyRows ==
    Imported /\ parsed # None /\ Layout(model) = "RootCollectionComposition" =>
        /\ parsed.kind = "list"
        /\ Len(parsed.list) = Cardinality(NonEmptyRows(opened[1]))

\* the export of m is to be refused: a dict field, or a collection that is
\* empty or holds a record without fields
Offending(m) == Layout(m) = "ConfigurationError" \/ ~Batchable(m)

\* C15: the export of an instance with a dict field, or with a collection no
\* batch can be built from, raises before any worksheet is populated; no
\* workbook is returned and none is saved.
C15_AllOrNothing ==
    Offending(model) =>
        /\ pc.at \in {"workbook", "raised"}
        /\ pc.at = "raised" =>
              /\ ~wb.ok
              /\ \A i \in DOMAIN book : book[i] = BlankSheet
        /\ saved = None

\* C15 witness: the export of a Multi-Sheet-Collection whose first collection
\* holds records and whose second is empty has raised, with nothing populated
\* and nothing saved
C15_Witness ==
    /\ pc.at = "raised" /\ wb = Raise("ValueError")
    /\ Layout(model) = "CollectionComposition"
    /\ Len(FieldsOf(model)) = 2
    /\ ~Unbatchable(model.d[FieldsOf(model)[1].name])
    /\ model.d[FieldsOf(model)[2].name] = ListVal(<<>>)
    /\ book = <<BlankSheet>>
    /\ saved = None

\* the steps of populating a sheet, in the order they are to run
Order ==
    <<"title", "insert_header", "insert_content", "freeze_cells", "apply_apperance",
      "apply_print_settings", "data_table">>

\* the steps whose effect worksheet ws shows, for a batch with a freeze cell
Effects(ws, sheet) ==
    { step \in { Order[k] : k \in DOMAIN Order } :
        CASE step = "title" -> ws.title = sheet.title
          [] step = "insert_header" -> Len(ws.rows) >= 1
          [] step = "insert_content" -> Len(ws.rows) >= 2
          [] step = "freeze_cells" -> ws.freeze_panes # None
          [] step = "apply_apperance" -> ws.columns # <<>>
          [] step = "apply_print_settings" -> ws.print # None
          [] step = "data_table" -> ws.table # None }

\* the number of steps that have run on worksheet i of the workbook
StepsDone(i) ==
    IF pc.at = "populate" /\ i = pc.sheet
    THEN (CHOOSE k \in DOMAIN Order : Order[k] = pc.step) - 1
    ELSE Len(Order)

\* C16: a worksheet shows the effects of a prefix of the steps header, data
\* rows, freeze pane, column appearance, print settings, table; once the
\* appearance is applied it holds the header and every data row and has one
\* column dimension per field; the table spans (fields, records + 1).
C16_PopulateOrder ==
    pc.at \in {"populate", "return", "save", "done"} =>
        \A i \in DOMAIN book :
            LET sheet   == sheets.sheets[i]
                ws      == book[i]
                nfields == Len(FieldsOf(sheet.data[1]))
            IN /\ Effects(ws, sheet) = { Order[k] : k \in 1 .. StepsDone(i) }
               /\ ws.columns # <<>> =>
                     /\ Len(ws.rows) = Len(sheet.data) + 1
                     /\ ws.rows[1] = [c \in 1 .. nfields |->
                                        StrVal(FieldsOf(sheet.data[1])[c].alias)]
                     /\ \A r \in 2 .. Len(ws.rows) : Len(ws.rows[r]) = nfields
                     /\ Len(ws.columns) = nfields
               /\ ws.table # None =>
                     ws.table = [col |-> nfields, row |-> Len(sheet.data) + 1]

\* C16 witness: the appearance of the second sheet of a workbook was just
\* applied, to a sheet of a header and two data rows of two fields each
C16_Witness ==
    /\ pc = [at |-> "populate", sheet |-> 2, step |-> "apply_print_settings"]
    /\ Len(sheets.sheets[2].data) = 2
    /\ Len(book[2].rows) = 3
    /\ Len(book[2].columns) = 2
    /\ book[2].table = None
    /\ book[1].table = [col |-> 2, row |-> Len(sheets.sheets[1].data) + 1]

====
